---- MODULE Spec2Model ----
(***************************************************************************)
(* Model of src/main.py: the trailing-stop / stop-loss cycle of the        *)
(* Alpaca seller.  One cycle (run_cycle) loads the active table from the   *)
(* sheet, fetches the broker's positions, decides per position, closes     *)
(* what an exit rule hits, and overwrites the active table with the kept   *)
(* rows.                                                                   *)
(*                                                                         *)
(* Numbers.  Percentages are exact rationals [n, d] (d > 0) in units of    *)
(* 0.01 % ("hundredths"), so round(x, 2) is rounding to an integer.  The   *)
(* float arithmetic of the source is modelled by exact arithmetic; the     *)
(* inputs avoid exact rounding ties.                                       *)
(***************************************************************************)
EXTENDS Integers, Sequences, FiniteSets, TLC

VARIABLES
    environ,     \* os.environ as read at import (names -> raw text)
    call,        \* thresholds_for_position's argument and result, once applied
    header,      \* sheet row 1: are the headers of A1:H1 and of J1:N1 in place
    active,      \* sheet rows A2:H500 that are not empty, top to bottom
    closed,      \* sheet rows of the closed-trades table (J:N), top to bottom
    pc,          \* position of the driver loop / run_cycle
    df,          \* run_cycle's local df (load_active's result)
    positions,   \* run_cycle's local positions (list_positions' result)
    idx,         \* index of the next position of the for loop
    results,     \* run_cycle's local results
    closeCalls,  \* tickers alpaca.close_position was called with, this cycle
    log,         \* per ticker: what the latest cycle did with it
    run          \* per ticker: the watermark history of its open position

vars == << environ, call, header, active, closed, pc, df, positions, idx, results,
           closeCalls, log, run >>

----------------------------------------------------------------------------
(* Bounds of the model *)

\* cycles start while the closed-trades table holds fewer rows than this
MaxClosed == 2

----------------------------------------------------------------------------
(* Raw values: what an attribute, a cell or an environment variable holds  *)
(* before it is parsed.  Text that float() accepts is Num(v); any other    *)
(* text is Str(s); a missing attribute or variable is None.                *)

None == [k |-> "none"]
Str(s) == [k |-> "str", s |-> s]
Num(v) == [k |-> "num", v |-> v]

(* Rationals *)
Rat(n, d) == IF d < 0 THEN [n |-> -n, d |-> -d] ELSE [n |-> n, d |-> d]
Int2Rat(v) == [n |-> v, d |-> 1]
Leq(a, b) == a.n * b.d <= b.n * a.d
Lt(a, b) == a.n * b.d < b.n * a.d
RatEq(a, b) == a.n * b.d = b.n * a.d
Sub(a, b) == [n |-> a.n * b.d - b.n * a.d, d |-> a.d * b.d]

\* round(x, 2): to the nearest hundredth, an exact tie to the even one
round2(x) ==
    LET q == x.n \div x.d
        r == x.n - q * x.d
    IN  IF 2 * r < x.d THEN q
        ELSE IF 2 * r > x.d THEN q + 1
        ELSE IF q % 2 = 0 THEN q ELSE q + 1

----------------------------------------------------------------------------
(* Environment and thresholds (rationals, in hundredths of a percent) *)

Upper(name) ==
    CASE name = "Option_STOP_LOSS_PCT" -> "OPTION_STOP_LOSS_PCT"
      [] name = "Option_ARMED_GAIN_PCT" -> "OPTION_ARMED_GAIN_PCT"
      [] name = "Option_TRAIL_DROP_PCT" -> "OPTION_TRAIL_DROP_PCT"
      [] OTHER -> name

EnvNames == { "STOP_LOSS_PCT", "ARMED_GAIN_PCT", "TRAIL_DROP_PCT",
              "Option_STOP_LOSS_PCT", "Option_ARMED_GAIN_PCT", "Option_TRAIL_DROP_PCT",
              "OPTION_STOP_LOSS_PCT", "OPTION_ARMED_GAIN_PCT", "OPTION_TRAIL_DROP_PCT" }

Unset == [name \in EnvNames |-> None]

\* the environment the model runs in: the stock stop-loss is set to text that
\* is no number and the other stock thresholds are unset (all three take their
\* defaults), the option stop-loss is "-10" under its upper-case name, the
\* option armed gain is "8.004", the option trail drop is unset
Environment ==
    [Unset EXCEPT !["STOP_LOSS_PCT"] = Str("three"),
                  !["OPTION_STOP_LOSS_PCT"] = Num(Int2Rat(-1000)),
                  !["Option_ARMED_GAIN_PCT"] = Num(Rat(4002, 5))]

get_env_float(env, env_name, default) ==
    LET raw0 == env[env_name]
        raw == IF raw0.k = "none" THEN env[Upper(env_name)] ELSE raw0
    IN  IF raw.k = "none" THEN default
        ELSE IF raw.k = "num" THEN raw.v
        ELSE default

DefaultStopLossPct == -300
DefaultArmedGainPct == 500
DefaultTrailDropPct == 300

STOP_LOSS_PCT == get_env_float(environ, "STOP_LOSS_PCT", Int2Rat(DefaultStopLossPct))
ARMED_GAIN_PCT == get_env_float(environ, "ARMED_GAIN_PCT", Int2Rat(DefaultArmedGainPct))
TRAIL_DROP_PCT == get_env_float(environ, "TRAIL_DROP_PCT", Int2Rat(DefaultTrailDropPct))
OPTION_STOP_LOSS_PCT == get_env_float(environ, "Option_STOP_LOSS_PCT", STOP_LOSS_PCT)
OPTION_ARMED_GAIN_PCT == get_env_float(environ, "Option_ARMED_GAIN_PCT", ARMED_GAIN_PCT)
OPTION_TRAIL_DROP_PCT == get_env_float(environ, "Option_TRAIL_DROP_PCT", TRAIL_DROP_PCT)

----------------------------------------------------------------------------
(* Symbols *)

Tickers == { "AAPL", "AAPL250117C00150000" }

\* the characters of a symbol
Chars(symbol) ==
    CASE symbol = "AAPL" -> << "A", "A", "P", "L" >>
      [] symbol = "AAPL250117C00150000" ->
            << "A", "A", "P", "L", "2", "5", "0", "1", "1", "7", "C", "0",
               "0", "1", "5", "0", "0", "0", "0" >>
      [] symbol = "F250117P00012000" ->
            << "F", "2", "5", "0", "1", "1", "7", "P", "0", "0", "0", "1",
               "2", "0", "0", "0" >>
      [] symbol = "GOOGLE250117C00150000" ->
            << "G", "O", "O", "G", "L", "E", "2", "5", "0", "1", "1", "7",
               "C", "0", "0", "1", "5", "0", "0", "0", "0" >>
      [] symbol = "ABCDEFG250117C00150000" ->
            << "A", "B", "C", "D", "E", "F", "G", "2", "5", "0", "1", "1",
               "7", "C", "0", "0", "1", "5", "0", "0", "0", "0" >>
      [] symbol = "aapl250117C00150000" ->
            << "a", "a", "p", "l", "2", "5", "0", "1", "1", "7", "C", "0",
               "0", "1", "5", "0", "0", "0", "0" >>
      [] symbol = "AAPL250117X00150000" ->
            << "A", "A", "P", "L", "2", "5", "0", "1", "1", "7", "X", "0",
               "0", "1", "5", "0", "0", "0", "0" >>
      [] symbol = "AAPL25011C00150000" ->
            << "A", "A", "P", "L", "2", "5", "0", "1", "1", "C", "0", "0",
               "1", "5", "0", "0", "0", "0" >>
      [] symbol = "AAPL250117C0015000" ->
            << "A", "A", "P", "L", "2", "5", "0", "1", "1", "7", "C", "0",
               "0", "1", "5", "0", "0", "0" >>
      [] symbol = "BRK.B" ->
            << "B", "R", "K", ".", "B" >>
      [] OTHER -> << >>

UpperLetters == { "A", "B", "C", "D", "E", "F", "G", "H", "I", "J", "K", "L", "M",
                  "N", "O", "P", "Q", "R", "S", "T", "U", "V", "W", "X", "Y", "Z" }
Digits == { "0", "1", "2", "3", "4", "5", "6", "7", "8", "9" }

\* ^[A-Z]{1,6}\d{6}[CP]\d{8}$
looks_like_option_symbol(symbol) ==
    LET c == Chars(symbol)
    IN  \E k \in 1..6 :
            /\ Len(c) = k + 15
            /\ \A i \in 1..k : c[i] \in UpperLetters
            /\ \A i \in (k + 1)..(k + 6) : c[i] \in Digits
            /\ c[k + 7] \in { "C", "P" }
            /\ \A i \in (k + 8)..(k + 15) : c[i] \in Digits

Lower(s) ==
    CASE s = "US_OPTION" -> "us_option"
      [] s = "Us_Option" -> "us_option"
      [] s = "US_EQUITY" -> "us_equity"
      [] OTHER -> s

\* a classification by the asset class alone
thresholds_for_position_by_class(pos) ==
    LET asset_class == Lower(pos.asset_class)
        is_option == asset_class = "us_option"
    IN  IF is_option
        THEN [stop_loss_pct |-> OPTION_STOP_LOSS_PCT, armed_gain_pct |-> OPTION_ARMED_GAIN_PCT,
              trail_drop_pct |-> OPTION_TRAIL_DROP_PCT, is_option |-> TRUE]
        ELSE [stop_loss_pct |-> STOP_LOSS_PCT, armed_gain_pct |-> ARMED_GAIN_PCT,
              trail_drop_pct |-> TRAIL_DROP_PCT, is_option |-> FALSE]

thresholds_for_position(pos) ==
    LET asset_class == Lower(pos.asset_class)
        is_option == (asset_class = "us_option") \/ looks_like_option_symbol(pos.symbol)
    IN  IF is_option
        THEN [stop_loss_pct |-> OPTION_STOP_LOSS_PCT, armed_gain_pct |-> OPTION_ARMED_GAIN_PCT,
              trail_drop_pct |-> OPTION_TRAIL_DROP_PCT, is_option |-> TRUE]
        ELSE [stop_loss_pct |-> STOP_LOSS_PCT, armed_gain_pct |-> ARMED_GAIN_PCT,
              trail_drop_pct |-> TRAIL_DROP_PCT, is_option |-> FALSE]

----------------------------------------------------------------------------
(* Position snapshots: what list_positions returns *)

Pos(symbol, asset_class, side, cost, current) ==
    [symbol |-> symbol, asset_class |-> asset_class, side |-> side,
     avg_entry_price |-> cost, current_price |-> current]

\* long positions of the stock, entry price 100: gains -3, -1, 4, 5, 8 %
StockQuotes == { 97, 99, 104, 105, 108 }

PositionChoices(symbol) ==
    IF symbol = "AAPL"
    THEN { Pos("AAPL", "us_equity", "long", Num(100), Num(c)) : c \in StockQuotes }
         \cup { Pos("AAPL", "us_equity", "long", Num(1001), Num(1051)),   \* +4.995.. %
                Pos("AAPL", "us_equity", "long", Num(1001), Num(1000)),   \* -0.0999.. %
                Pos("AAPL", "us_equity", "short", Num(100), Num(90)),     \* +10 %
                Pos("AAPL", "us_equity", "long", None, Num(100)),
                Pos("AAPL", "us_equity", "long", Num(0), Num(100)),
                Pos("AAPL", "us_equity", "long", Num(100), Str("n/a")) }
    ELSE { Pos(symbol, "", "long", Num(100), Num(85)),                    \* -15 %
           Pos(symbol, "", "long", Num(200000), Num(216009)),             \* +8.0045 %
           Pos(symbol, "", "long", Num(100), Str("")) }

\* the broker reports at most one position per symbol.  The list holds the
\* symbols in the order reported; the fields of a snapshot are drawn by the
\* pass of the loop that reads it (no step reads a snapshot before its pass,
\* and none reads it twice, so the behaviours are those of a list drawn whole)
PositionLists ==
    { ps \in UNION { [1..n -> Tickers] : n \in 0..Cardinality(Tickers) } :
        \A i, j \in DOMAIN ps : i # j => ps[i] # ps[j] }

Listed(ps) == { ps[i] : i \in DOMAIN ps }

----------------------------------------------------------------------------
(* The sheet *)

ActiveRows == 499

Row(ticker, ath, armed) == [Ticker |-> ticker, ATH |-> ath, Armed |-> armed]

\* lines 135-157: both header rows are in place afterwards; no other cell is
\* written
ensure_sheet_structure(h) == [main |-> TRUE, closed |-> TRUE]

\* what ensure_sheet_structure has done to row 1 when run_cycle's line 210 or
\* 211 raises: nothing, the main headers only, or both header rows
EnsureOutcomes(h) ==
    { h, [main |-> TRUE, closed |-> h.closed], ensure_sheet_structure(h) }

\* load_active: the rows of A2:H500 that are not empty
load_active(rows) ==
    SubSeq(rows, 1, IF Len(rows) < ActiveRows THEN Len(rows) ELSE ActiveRows)

HasRow(rows, ticker) == \E i \in DOMAIN rows : rows[i].Ticker = ticker

\* df[df["Ticker"] == ticker].iloc[0]
FirstRow(rows, ticker) ==
    LET i == CHOOSE i \in DOMAIN rows :
                /\ rows[i].Ticker = ticker
                /\ \A j \in DOMAIN rows : rows[j].Ticker = ticker => i <= j
    IN  rows[i]

\* a safe_float that answers 0.0 where it should answer the fallback
safe_float_zero(val, fallback) ==
    IF val.k = "none" THEN Num(0)
    ELSE IF val.k = "str" THEN Num(0)
    ELSE Num(val.v)

safe_float(val, fallback) ==
    IF val.k = "none" THEN fallback
    ELSE IF val.k = "str" THEN fallback
    ELSE Num(val.v)

\* str(x).strip().upper()
StripUpper(s) ==
    CASE s = "true" -> "TRUE"
      [] s = " TRUE " -> "TRUE"
      [] s = "false" -> "FALSE"
      [] OTHER -> s

----------------------------------------------------------------------------
(* The decision of one position (the body of run_cycle's loop) *)

Zero == Int2Rat(0)

RECURSIVE Gcd(_, _)
Gcd(a, b) == IF b = 0 THEN a ELSE Gcd(b, a % b)

Abs(x) == IF x < 0 THEN -x ELSE x

\* lowest terms, so that equal values are equal records
Norm(r) ==
    LET g == Gcd(Abs(r.n), r.d)
    IN  [n |-> r.n \div g, d |-> r.d \div g]

percent_gain_of(side, cost, current) ==
    IF side = "short"
    THEN Norm(Rat((cost - current) * 10000, cost))
    ELSE Norm(Rat((current - cost) * 10000, cost))

\* lines 239-252: the saved watermark and armed flag, or the first-sighting seed
saved_state(rows, ticker, percent_gain) ==
    IF HasRow(rows, ticker)
    THEN LET row == FirstRow(rows, ticker)
             saved_ath == safe_float(row.ATH, None)
         IN  [ath |-> IF saved_ath.k = "none" THEN percent_gain ELSE Int2Rat(saved_ath.v),
              armed |-> StripUpper(row.Armed) = "TRUE"]
    ELSE [ath |-> percent_gain, armed |-> FALSE]

\* an update that resets the watermark on a negative gain but leaves armed as it was
update_state_keeps_armed(percent_gain, ath, armed, armed_gain_pct) ==
    IF Lt(percent_gain, Zero)
    THEN [ath |-> percent_gain, armed |-> armed]
    ELSE LET ath2 == IF Lt(ath, percent_gain) THEN percent_gain ELSE ath
         IN  [ath |-> ath2,
              armed |-> IF Leq(armed_gain_pct, ath2) THEN TRUE ELSE armed]

\* an update that never raises the watermark to a higher gain
update_state_no_raise(percent_gain, ath, armed, armed_gain_pct) ==
    IF Lt(percent_gain, Zero)
    THEN [ath |-> percent_gain, armed |-> FALSE]
    ELSE [ath |-> ath, armed |-> IF Leq(armed_gain_pct, ath) THEN TRUE ELSE armed]

\* lines 254-265: reset on a negative gain, else raise the watermark and arm
update_state(percent_gain, ath, armed, armed_gain_pct) ==
    IF Lt(percent_gain, Zero)
    THEN [ath |-> percent_gain, armed |-> FALSE]
    ELSE LET ath2 == IF Lt(ath, percent_gain) THEN percent_gain ELSE ath
         IN  [ath |-> ath2,
              armed |-> IF Leq(armed_gain_pct, ath2) THEN TRUE ELSE armed]

\* exit rules with strict comparisons
should_sell_strict(percent_gain, ath, armed, stop_loss_pct, trail_drop_pct) ==
    \/ Lt(percent_gain, stop_loss_pct)
    \/ armed /\ Lt(percent_gain, Sub(ath, trail_drop_pct))

\* lines 267-276: the two exit rules
should_sell(percent_gain, ath, armed, stop_loss_pct, trail_drop_pct) ==
    \/ Leq(percent_gain, stop_loss_pct)
    \/ armed /\ Leq(percent_gain, Sub(ath, trail_drop_pct))

\* lines 217-276
Decide(pos, rows) ==
    LET th == thresholds_for_position(pos)
        cost == safe_float(pos.avg_entry_price, None)
        current == safe_float(pos.current_price, None)
    IN  IF cost.k = "none" \/ current.k = "none" \/ cost.v = 0
        THEN [priced |-> FALSE, percent_gain |-> Zero, ath |-> Zero, armed |-> FALSE,
              sell |-> FALSE]
        ELSE LET percent_gain == percent_gain_of(pos.side, cost.v, current.v)
                 saved == saved_state(rows, pos.symbol, percent_gain)
                 st == update_state(percent_gain, saved.ath, saved.armed, th.armed_gain_pct)
             IN  [priced |-> TRUE, percent_gain |-> percent_gain, ath |-> st.ath,
                  armed |-> st.armed,
                  sell |-> should_sell(percent_gain, st.ath, st.armed,
                                       th.stop_loss_pct, th.trail_drop_pct)]

\* lines 291-300: the row of a kept position
kept_row(ticker, ath, armed) ==
    Row(ticker, Num(round2(ath)), IF armed THEN "TRUE" ELSE "FALSE")

\* lines 201-203 with the arguments of line 285
closed_row(ticker, percent_gain, armed) ==
    [Ticker |-> ticker, Gain |-> round2(percent_gain),
     Armed |-> IF armed THEN "TRUE" ELSE "FALSE"]

\* line 303: 499 blank rows over A2:H500 leave no row that is not empty
clear_region(rows) == << >>

\* line 305: the rows written from A2 downwards replace what was there; what
\* lies below them stays
write_rows(rows, new) ==
    LET all == new \o SubSeq(rows, Len(new) + 1, Len(rows))
    IN  SubSeq(all, 1, IF Len(all) < ActiveRows THEN Len(all) ELSE ActiveRows)

----------------------------------------------------------------------------
(* History kept for the properties: it is written, never read, by the      *)
(* program's steps.                                                        *)

NoPos == Pos("", "", "", None, None)

\* An abandoned cycle leaves no entry.
\* dec: "none" (not in the fetched list), "skip", "keep", "closed" (closed and
\* recorded), "closefail" (close_position raised), "recordfail" (closed, the
\* append raised)
NoLog == [dec |-> "none", pos |-> NoPos, percent_gain |-> Zero, ath |-> Zero, armed |-> FALSE]

Entry(dec, pos, d) ==
    [dec |-> dec, pos |-> pos, percent_gain |-> d.percent_gain, ath |-> d.ath, armed |-> d.armed]

\* has: a non-negative reading was recorded since the position opened or last
\* reset, wm being the watermark of the latest one; reached: the watermark
\* reached armed_gain_pct since then; known: no cycle was abandoned since then
FreshRun == [known |-> TRUE, has |-> FALSE, wm |-> Zero, reached |-> FALSE]
LostRun == [known |-> FALSE, has |-> FALSE, wm |-> Zero, reached |-> FALSE]

NextRun(r, dec, pos, d) ==
    IF dec = "skip" THEN r
    ELSE IF dec \in { "closed", "recordfail" } THEN FreshRun
    ELSE IF Lt(d.percent_gain, Zero) THEN FreshRun
    ELSE [known |-> r.known, has |-> TRUE, wm |-> d.ath,
          reached |-> r.reached
                      \/ Leq(thresholds_for_position(pos).armed_gain_pct, d.ath)]

----------------------------------------------------------------------------
(* thresholds_for_position on its own: applied to snapshots of many symbols *)
(* and asset classes, under many environments                              *)

\* no call yet
NoCall ==
    [made |-> FALSE, pos |-> NoPos,
     th |-> [stop_loss_pct |-> Zero, armed_gain_pct |-> Zero, trail_drop_pct |-> Zero,
             is_option |-> FALSE]]

\* how an option threshold is given: not at all, under the name the code asks
\* for, under the upper-case name, under both names, or as text that is no number
OptionSettings == { "unset", "exact", "upper", "both", "text" }

\* stop-loss, armed gain, trail drop: -4, 6, 2 % for stocks when set; -20, 15,
\* 7 % under the Option_ names; -10, 10, 5 % under the OPTION_ names
Env(stocks_set, stop_loss, armed_gain, trail_drop) ==
    LET exact(setting, v) ==
            IF setting \in { "exact", "both" } THEN Num(Int2Rat(v))
            ELSE IF setting = "text" THEN Str("abc") ELSE None
        upper(setting, v) ==
            IF setting \in { "upper", "both" } THEN Num(Int2Rat(v)) ELSE None
    IN  [name \in EnvNames |->
            CASE name = "STOP_LOSS_PCT" -> IF stocks_set THEN Num(Int2Rat(-400)) ELSE None
              [] name = "ARMED_GAIN_PCT" -> IF stocks_set THEN Num(Int2Rat(600)) ELSE None
              [] name = "TRAIL_DROP_PCT" -> IF stocks_set THEN Num(Int2Rat(200)) ELSE None
              [] name = "Option_STOP_LOSS_PCT" -> exact(stop_loss, -2000)
              [] name = "Option_ARMED_GAIN_PCT" -> exact(armed_gain, 1500)
              [] name = "Option_TRAIL_DROP_PCT" -> exact(trail_drop, 700)
              [] name = "OPTION_STOP_LOSS_PCT" -> upper(stop_loss, -1000)
              [] name = "OPTION_ARMED_GAIN_PCT" -> upper(armed_gain, 1000)
              [] name = "OPTION_TRAIL_DROP_PCT" -> upper(trail_drop, 500)]

EnvChoices ==
    { Env(e, a, b, c) : e \in BOOLEAN, a \in OptionSettings, b \in OptionSettings,
                        c \in OptionSettings }

TestSymbols ==
    { "AAPL", "BRK.B", "AAPL250117C00150000", "F250117P00012000", "GOOGLE250117C00150000",
      "ABCDEFG250117C00150000", "aapl250117C00150000", "AAPL250117X00150000",
      "AAPL25011C00150000", "AAPL250117C0015000" }

TestClasses == { "us_option", "US_OPTION", "Us_Option", "us_equity", "crypto", "" }

InitClassify ==
    /\ environ \in EnvChoices
    /\ call = NoCall
    /\ header = [main |-> FALSE, closed |-> FALSE]
    /\ active = << >>
    /\ closed = << >>
    /\ pc = "start"
    /\ df = << >>
    /\ positions = << >>
    /\ idx = 1
    /\ results = << >>
    /\ closeCalls = {}
    /\ log = [t \in Tickers |-> NoLog]
    /\ run = [t \in Tickers |-> FreshRun]

\* line 219 on its own
Classify ==
    /\ \E symbol \in TestSymbols, asset_class \in TestClasses :
        LET pos == Pos(symbol, asset_class, "long", Num(100), Num(100))
        IN  call' = [made |-> TRUE, pos |-> pos, th |-> thresholds_for_position(pos)]
    /\ UNCHANGED << environ, header, active, closed, pc, df, positions, idx, results,
                    closeCalls, log, run >>

NextClassify == Classify

ClassifySpec == InitClassify /\ [][NextClassify]_vars

----------------------------------------------------------------------------
(* The driver loop (lines 323-328) and run_cycle (lines 209-305) *)

Init ==
    /\ environ = Environment
    /\ call = NoCall
    /\ header = [main |-> FALSE, closed |-> FALSE]
    /\ active = << >>
    /\ closed = << >>
    /\ pc = "start"
    /\ df = << >>
    /\ positions = << >>
    /\ idx = 1
    /\ results = << >>
    /\ closeCalls = {}
    /\ log = [t \in Tickers |-> NoLog]
    /\ run = [t \in Tickers |-> FreshRun]

\* run_cycle is left: its locals are gone
Return ==
    /\ pc' = "sleep"
    /\ df' = << >>
    /\ positions' = << >>
    /\ idx' = 1
    /\ results' = << >>
    /\ closeCalls' = {}

\* an exception that leaves run_cycle and is caught nowhere: the process ends
Abandon_uncaught ==
    /\ pc' = "exit"
    /\ df' = << >>
    /\ positions' = << >>
    /\ idx' = 1
    /\ results' = << >>
    /\ closeCalls' = {}
    /\ log' = [t \in Tickers |-> NoLog]
    /\ run' = [t \in Tickers |-> LostRun]

\* an exception leaves run_cycle: caught at line 326, then the sleep
Abandon ==
    /\ Return
    /\ log' = [t \in Tickers |-> NoLog]
    /\ run' = [t \in Tickers |-> LostRun]

\* lines 323-325 and 328: the sleep is over, the next cycle is called
StartCycle ==
    /\ pc = "sleep"
    /\ Len(closed) < MaxClosed
    /\ pc' = "start"
    /\ UNCHANGED << environ, call, header, active, closed, df, positions, idx, results,
                    closeCalls, log, run >>

\* lines 210-211
EnsureAndLoad ==
    /\ pc = "start"
    /\ header' = ensure_sheet_structure(header)
    /\ df' = load_active(active)
    /\ pc' = "list"
    /\ UNCHANGED << environ, call, active, closed, positions, idx, results, closeCalls, log, run >>

\* lines 210-211: a sheet call raises
EnsureOrLoadFails ==
    /\ pc = "start"
    /\ header' \in EnsureOutcomes(header)
    /\ Abandon
    /\ UNCHANGED << environ, call, active, closed >>

\* lines 213-214
ListPositions ==
    /\ pc = "list"
    /\ \E ps \in PositionLists :
        /\ positions' = ps
        /\ log' = [t \in Tickers |-> IF t \in Listed(ps) THEN log[t] ELSE NoLog]
        /\ run' = [t \in Tickers |-> IF t \in Listed(ps) THEN run[t] ELSE FreshRun]
    /\ idx' = 1
    /\ results' = << >>
    /\ pc' = "loop"
    /\ UNCHANGED << environ, call, header, active, closed, df, closeCalls >>

\* a list_positions failure that comes after the active region was blanked
ListPositionsFails_cleared ==
    /\ pc = "list"
    /\ Abandon
    /\ active' = << >>
    /\ UNCHANGED << environ, call, header, closed >>

\* line 213: list_positions raises
ListPositionsFails ==
    /\ pc = "list"
    /\ Abandon
    /\ UNCHANGED << environ, call, header, active, closed >>

InLoop == pc = "loop" /\ idx <= Len(positions)

\* a loop that a skip or a failed close or append leaves (break, or an exception
\* that is not caught) instead of going on to the next position
Pass_leaves_loop(dec, pos) ==
    LET d == Decide(pos, df)
    IN  /\ idx' = IF dec \in { "skip", "closefail", "recordfail" }
                  THEN Len(positions) + 1 ELSE idx + 1
        /\ log' = [log EXCEPT ![pos.symbol] = Entry(dec, pos, d)]
        /\ run' = [run EXCEPT ![pos.symbol] = NextRun(@, dec, pos, d)]
        /\ UNCHANGED << environ, call, header, active, df, positions, pc >>

\* what every pass of the loop body does
Pass(dec, pos) ==
    LET d == Decide(pos, df)
    IN  /\ idx' = idx + 1
        /\ log' = [log EXCEPT ![pos.symbol] = Entry(dec, pos, d)]
        /\ run' = [run EXCEPT ![pos.symbol] = NextRun(@, dec, pos, d)]
        /\ UNCHANGED << environ, call, header, active, df, positions, pc >>

\* lines 228-230
SkipPosition ==
    /\ InLoop
    /\ \E pos \in PositionChoices(positions[idx]) :
        /\ ~Decide(pos, df).priced
        /\ Pass("skip", pos)
    /\ UNCHANGED << closed, results, closeCalls >>

\* lines 290-300
KeepPosition ==
    /\ InLoop
    /\ \E pos \in PositionChoices(positions[idx]) :
        LET d == Decide(pos, df)
        IN  /\ d.priced /\ ~d.sell
            /\ results' = Append(results, kept_row(pos.symbol, d.ath, d.armed))
            /\ Pass("keep", pos)
    /\ UNCHANGED << closed, closeCalls >>

\* lines 278-288, nothing raises
ClosePosition ==
    /\ InLoop
    /\ \E pos \in PositionChoices(positions[idx]) :
        LET d == Decide(pos, df)
        IN  /\ d.priced /\ d.sell
            /\ closed' = Append(closed, closed_row(pos.symbol, d.percent_gain, d.armed))
            /\ Pass("closed", pos)
    /\ closeCalls' = closeCalls \cup { positions[idx] }
    /\ UNCHANGED results

\* lines 278-288, close_position raises
ClosePositionFails ==
    /\ InLoop
    /\ \E pos \in PositionChoices(positions[idx]) :
        LET d == Decide(pos, df)
        IN  /\ d.priced /\ d.sell
            /\ Pass("closefail", pos)
    /\ closeCalls' = closeCalls \cup { positions[idx] }
    /\ UNCHANGED << closed, results >>

\* lines 278-288, record_closed_trade raises after the close
RecordClosedTradeFails ==
    /\ InLoop
    /\ \E pos \in PositionChoices(positions[idx]) :
        LET d == Decide(pos, df)
        IN  /\ d.priced /\ d.sell
            /\ Pass("recordfail", pos)
    /\ closeCalls' = closeCalls \cup { positions[idx] }
    /\ UNCHANGED << closed, results >>

LoopDone == pc = "loop" /\ idx > Len(positions)

\* a cycle that goes on to the write without clearing A2:H500
ClearActive_skipped ==
    /\ LoopDone
    /\ pc' = "write"
    /\ UNCHANGED << environ, call, header, active, closed, df, positions, idx, results,
                    closeCalls, log, run >>

\* a clear that blanks the rows of the closed-trades columns as well (A2:N500)
ClearActive_wide ==
    /\ LoopDone
    /\ active' = clear_region(active)
    /\ closed' = << >>
    /\ pc' = "write"
    /\ UNCHANGED << environ, call, header, df, positions, idx, results, closeCalls, log, run >>

\* line 303
ClearActive ==
    /\ LoopDone
    /\ active' = clear_region(active)
    /\ pc' = "write"
    /\ UNCHANGED << environ, call, header, closed, df, positions, idx, results, closeCalls,
                    log, run >>

\* line 303: the update raises
ClearActiveFails ==
    /\ LoopDone
    /\ Abandon
    /\ UNCHANGED << environ, call, header, active, closed >>

\* lines 303-305: the clear, then the write if anything was kept
Save(rows, new) ==
    LET cleared == clear_region(rows)
    IN  IF new # << >> THEN write_rows(cleared, new) ELSE cleared

\* lines 304-305, then the return and the sleep
WriteResults ==
    /\ pc = "write"
    /\ active' = IF results # << >> THEN write_rows(active, results) ELSE active
    /\ Return
    /\ UNCHANGED << environ, call, header, closed, log, run >>

\* line 305: the update raises
WriteResultsFails ==
    /\ pc = "write"
    /\ results # << >>
    /\ Abandon
    /\ UNCHANGED << environ, call, header, active, closed >>

Next ==
    \/ StartCycle
    \/ EnsureAndLoad
    \/ EnsureOrLoadFails
    \/ ListPositions
    \/ ListPositionsFails
    \/ SkipPosition
    \/ KeepPosition
    \/ ClosePosition
    \/ ClosePositionFails
    \/ RecordClosedTradeFails
    \/ ClearActive
    \/ ClearActiveFails
    \/ WriteResults
    \/ WriteResultsFails

Spec == Init /\ [][Next]_vars

\* Sheets that were not written by this program alone (rows typed or edited by
\* hand, or left ragged): a blank watermark cell next to Armed? TRUE, a watermark
\* that is no number next to a blank Armed? cell, a lower-case armed flag
SheetChoices ==
    { << Row("AAPL", Str(""), "TRUE") >>,
      << Row("AAPL", Str("n/a"), "") >>,
      << Row("AAPL", Num(600), "true") >> }

\* the program is started on such a sheet; what happened to the positions
\* before is not known
InitSheet ==
    /\ environ = Environment
    /\ call = NoCall
    /\ header = [main |-> TRUE, closed |-> TRUE]
    /\ active \in SheetChoices
    /\ closed = << >>
    /\ pc = "start"
    /\ df = << >>
    /\ positions = << >>
    /\ idx = 1
    /\ results = << >>
    /\ closeCalls = {}
    /\ log = [t \in Tickers |-> NoLog]
    /\ run = [t \in Tickers |-> LostRun]

SheetSpec == InitSheet /\ [][Next]_vars

\* the process is not stopped from outside: it goes on executing, a call returns
\* or raises, and time.sleep(60) returns
\* the program is restarted on the sheet of an earlier run that closed trades:
\* the active table is empty, the closed-trades table is one row short of the
\* model's bound
EarlierClosed == [i \in 1..(MaxClosed - 1) |-> closed_row("AAPL", Int2Rat(-300), FALSE)]

InitRestart ==
    /\ environ = Environment
    /\ call = NoCall
    /\ header = [main |-> TRUE, closed |-> TRUE]
    /\ active = << >>
    /\ closed = EarlierClosed
    /\ pc = "start"
    /\ df = << >>
    /\ positions = << >>
    /\ idx = 1
    /\ results = << >>
    /\ closeCalls = {}
    /\ log = [t \in Tickers |-> NoLog]
    /\ run = [t \in Tickers |-> FreshRun]

FairSpec == InitRestart /\ [][Next]_vars /\ WF_vars(Next)

----------------------------------------------------------------------------
(* Properties *)

\* a pass of the loop over ticker t; before it log[t] and run[t] are what the
\* previous cycle left, after it (primed) what this cycle did
StepOn(t) == InLoop /\ positions[idx] = t /\ idx' = idx + 1

CloseAttempted == { "closed", "closefail", "recordfail" }

\* cost basis or current price missing or not a number, or cost basis zero
Unpriced(pos) ==
    IF pos.avg_entry_price.k # "num" \/ pos.current_price.k # "num" THEN TRUE
    ELSE pos.avg_entry_price.v = 0

\* the row of ticker t is the same in both tables (or in neither)
SameRow(before, after, t) ==
    /\ HasRow(before, t) <=> HasRow(after, t)
    /\ HasRow(before, t) => FirstRow(after, t) = FirstRow(before, t)

\* C1: when close_position failed for a ticker, the row the ticker had when the
\* cycle began is still in the active table, unchanged, when the cycle completes.
C1_FailedCloseLeavesRow ==
    [][WriteResults =>
        \A t \in Tickers :
            (log[t].dec = "closefail" /\ HasRow(df, t)) => SameRow(df, active', t)]_vars

\* C2: when close_position failed for a ticker in one cycle and the next cycle sees
\* the same position (side, cost basis, current price), the next cycle attempts
\* close_position for it again.
C2_FailedCloseIsRetried ==
    [][\A t \in Tickers :
        (StepOn(t) /\ log[t].dec = "closefail" /\ log'[t].pos = log[t].pos)
            => log'[t].dec \in CloseAttempted]_vars

\* C3: when a position is skipped for missing pricing, the ticker's row in the
\* active table after the cycle is the row it had before the cycle.
C3_SkipLeavesRow ==
    [][WriteResults =>
        \A t \in Tickers : log[t].dec = "skip" => SameRow(df, active', t)]_vars

\* C4: for a position without usable pricing no decision is computed: the pass
\* calls close_position for nothing and appends no closed-trade record.
C4_UnpricedNeverCloses ==
    [][\A t \in Tickers :
        (StepOn(t) /\ Unpriced(log'[t].pos))
            => /\ log'[t].dec = "skip"
               /\ closeCalls' = closeCalls
               /\ closed' = closed]_vars

\* an unpriced position was passed over although its loaded row is armed
C4_Witness ==
    \E t \in Tickers :
        /\ pc = "loop"
        /\ log[t].dec = "skip" /\ Unpriced(log[t].pos)
        /\ t \notin closeCalls
        /\ HasRow(df, t) /\ FirstRow(df, t).Armed = "TRUE"

\* C5: for a priced position close_position is attempted if and only if
\* percent_gain <= stop_loss_pct, or armed and percent_gain <= watermark -
\* trail_drop_pct (watermark and armed as updated in this cycle); comparisons
\* are inclusive.
C5_CloseIffExitRule ==
    [][\A t \in Tickers :
        (StepOn(t) /\ ~Unpriced(log'[t].pos))
            => LET e == log'[t]
                   th == thresholds_for_position(e.pos)
                   stop == Leq(e.percent_gain, th.stop_loss_pct)
                   trail == e.armed /\ Leq(e.percent_gain,
                                           Sub(e.ath, th.trail_drop_pct))
               IN  /\ (t \in closeCalls') <=> (stop \/ trail)
                   /\ (t \in closeCalls') <=> (e.dec \in CloseAttempted)
                   /\ (~e.armed /\ ~stop) => e.dec = "keep"]_vars

\* the trailing stop fired on a reading exactly at watermark - trail_drop_pct
C5_Witness ==
    \E t \in Tickers :
        LET e == log[t]
            th == thresholds_for_position(e.pos)
        IN  /\ pc = "loop"
            /\ t \in closeCalls
            /\ e.dec \in CloseAttempted
            /\ e.armed
            /\ ~Leq(e.percent_gain, th.stop_loss_pct)
            /\ RatEq(e.percent_gain, Sub(e.ath, th.trail_drop_pct))

\* the reset on a negative gain, as every pass applies it
ResetApplied(t) ==
    (StepOn(t) /\ log'[t].dec # "skip" /\ Lt(log'[t].percent_gain, Zero))
        => /\ log'[t].ath = log'[t].percent_gain
           /\ ~log'[t].armed

C7_WatermarkMonotone ==
    [][\A t \in Tickers :
        (StepOn(t) /\ run[t].has /\ log'[t].dec # "skip"
                   /\ ~Lt(log'[t].percent_gain, Zero))
            => Leq(run[t].wm, log'[t].ath)]_vars

\* C8: a kept ticker is armed if and only if its watermark reached armed_gain_pct
\* in some cycle since its last reset.
C8_ArmedIffReached ==
    \A t \in Tickers :
        (log[t].dec = "keep" /\ run[t].known) => (log[t].armed <=> run[t].reached)

\* C9: when a cycle keeps a ticker and the next cycle sees the same position, the
\* next cycle computes the same watermark and the same armed flag.
C9_KeepRoundTrip ==
    [][\A t \in Tickers :
        (StepOn(t) /\ log[t].dec = "keep" /\ log'[t].pos = log[t].pos)
            => /\ RatEq(log'[t].ath, log[t].ath)
               /\ log'[t].armed = log[t].armed]_vars

\* C10: a row of the active table disappears over a cycle only if the cycle
\* closed the position and appended its closed-trade record.  (Stated for the
\* tickers the cycle's position list still holds.)
C10_RowEndsOnlyByClose ==
    [][WriteResults =>
        \A t \in Tickers :
            (HasRow(df, t) /\ ~HasRow(active', t) /\ log[t].dec # "none")
                => log[t].dec = "closed"]_vars

C12_FailureDoesNotAbort ==
    [][/\ InLoop => (pc' = "loop" /\ idx' = idx + 1)
       /\ (pc = "loop" /\ pc' # "loop") =>
            \A i \in DOMAIN positions :
                LET t == positions[i]
                    e == log[t]
                IN  /\ e.dec # "none"
                    /\ (e.dec = "keep") <=> HasRow(results, t)
                    /\ (e.dec \in CloseAttempted) <=> (t \in closeCalls)
                    /\ (e.dec = "skip") <=> Unpriced(e.pos)
       /\ WriteResults =>
            \A t \in Tickers : log[t].dec = "keep" => HasRow(active', t)]_vars

\* the first of two positions failed (skip, failed close or failed append), and
\* the second was evaluated after it: kept with its row, or closed and recorded
C12_Witness ==
    /\ pc = "write"
    /\ Len(positions) = 2
    /\ log[positions[1]].dec = "closefail"
    /\ log[positions[2]].dec = "keep"
    /\ HasRow(results, positions[2])

\* C13: the driver loop is never left because a cycle failed: every cycle,
\* whether it completes or raises, ends in the idle sleep, and after the sleep
\* another cycle is started; cycles are started again and again (for as long as
\* the closed-trades table of the model has room).
C13_DriverKeepsCycling ==
    /\ (pc # "sleep") ~> (pc = "sleep")
    /\ []<>(pc = "start" \/ Len(closed) >= MaxClosed)

\* a cycle is started after a cycle that raised
C13_Witness ==
    /\ pc = "start"
    /\ \A t \in Tickers : ~run[t].known

IsPrefix(a, b) == Len(a) <= Len(b) /\ SubSeq(b, 1, Len(a)) = a

\* C14: the closed-trades table only grows at its end: over every step, and so
\* over every cycle, the table before is a prefix of the table after.  The
\* steps that write row 1 (ensure_sheet_structure), clear the active region or
\* write the kept rows leave it as it is.
C14_ClosedAppendOnly ==
    [][/\ IsPrefix(closed, closed')
       /\ Len(closed') <= Len(closed) + 1
       /\ (pc \in { "sleep", "start", "list", "write" } \/ LoopDone) => closed' = closed]_vars

\* the clear has just blanked a non-empty active table, the header rows are in
\* place, and the closed-trades table holds a record from an earlier cycle and a
\* record of this one
C14_Witness ==
    /\ pc = "write"
    /\ df # << >> /\ active = << >>
    /\ header.closed
    /\ Len(closed) = 2
    /\ Cardinality(closeCalls) = 1

\* the armed-gain threshold that applies to the positions of a ticker (of the
\* model's tickers the option is told by its symbol, whatever the asset class)
ArmedGainOf(t) == thresholds_for_position(Pos(t, "", "long", None, None)).armed_gain_pct

\* C15: in every row of the active table, Armed? is TRUE only if the row's
\* watermark is at least the ticker's armed_gain_pct (starting from an empty
\* active table).
C15_ArmedRowReachedGain ==
    \A i \in DOMAIN active :
        active[i].Armed = "TRUE" => Leq(ArmedGainOf(active[i].Ticker), Int2Rat(active[i].ATH.v))

\* the ticker has no row in the loaded table, or its row's watermark cell is
\* blank or no number
FirstSighting(rows, t) ==
    IF HasRow(rows, t) THEN FirstRow(rows, t).ATH.k # "num" ELSE TRUE

\* C16: for every ticker a cycle keeps, the watermark after the update is at
\* least the percent_gain of the cycle, and equal to it after a reset (negative
\* gain) and on first sighting, whatever the loaded row holds.
C16_WatermarkAtLeastGain ==
    [][\A t \in Tickers :
        (StepOn(t) /\ log'[t].dec = "keep")
            => LET e == log'[t]
               IN  /\ Leq(e.percent_gain, e.ath)
                   /\ (Lt(e.percent_gain, Zero) \/ FirstSighting(df, t))
                        => RatEq(e.ath, e.percent_gain)]_vars

\* a kept position whose loaded watermark was below the gain of the cycle: the
\* watermark was raised to the gain
C16_Witness ==
    \E t \in Tickers :
        /\ pc = "loop"
        /\ log[t].dec = "keep"
        /\ HasRow(df, t) /\ ~FirstSighting(df, t)
        /\ Lt(Int2Rat(FirstRow(df, t).ATH.v), log[t].percent_gain)
        /\ RatEq(log[t].ath, log[t].percent_gain)
        /\ HasRow(results, t)

\* Scenario D of the specification: no row, gain 2 %, armed_gain_pct 5 %
ScenarioD ==
    LET d == Decide(Pos("AAPL", "us_equity", "long", Num(100), Num(102)), << >>)
    IN  /\ d.priced /\ ~d.sell
        /\ RatEq(d.ath, Int2Rat(200))
        /\ ~d.armed

\* C17: on first sighting (no row for the ticker, or a row whose watermark cell
\* is blank or no number) the watermark is the percent_gain just computed and
\* armed is true only if that gain is non-negative and at least armed_gain_pct;
\* gain 2 with armed_gain_pct 5 gives watermark 2, armed false, Keep.
C17_FirstSightingSeed ==
    [][/\ ScenarioD
       /\ \A t \in Tickers :
            (StepOn(t) /\ log'[t].dec # "skip" /\ FirstSighting(df, t))
                => LET e == log'[t]
                   IN  /\ RatEq(e.ath, e.percent_gain)
                       /\ e.armed <=> (/\ Leq(Zero, e.percent_gain)
                                       /\ Leq(thresholds_for_position(e.pos).armed_gain_pct,
                                              e.percent_gain))]_vars

\* the test symbols ^[A-Z]{1,6}\d{6}[CP]\d{8}$ matches
OccSymbols == { "AAPL250117C00150000", "F250117P00012000", "GOOGLE250117C00150000" }

\* what a threshold is when the environment gives it as a number under its
\* name, or else under the upper-case name if it is absent under its name
Given(env, name) ==
    IF env[name].k = "num" THEN env[name]
    ELSE IF env[name].k = "none" /\ env[Upper(name)].k = "num" THEN env[Upper(name)]
    ELSE None

StockThreshold(env, name, default) ==
    IF Given(env, name).k = "num" THEN Given(env, name).v ELSE Int2Rat(default)

OptionThreshold(env, name, stock) ==
    IF Given(env, name).k = "num" THEN Given(env, name).v ELSE stock

\* C18: thresholds_for_position takes a position for an option exactly when its
\* asset class is us_option (in any letter case) or its ticker matches the OCC
\* pattern, the pattern alone sufficing when the asset class is blank; it
\* answers the option thresholds for an option and the stock thresholds
\* otherwise, and an option threshold the environment does not give is the
\* corresponding stock threshold.
C18_Classification ==
    call.made =>
        LET pos == call.pos
            th == call.th
            stop == StockThreshold(environ, "STOP_LOSS_PCT", DefaultStopLossPct)
            gain == StockThreshold(environ, "ARMED_GAIN_PCT", DefaultArmedGainPct)
            drop == StockThreshold(environ, "TRAIL_DROP_PCT", DefaultTrailDropPct)
        IN  /\ th.is_option <=>
                    (\/ pos.asset_class \in { "us_option", "US_OPTION", "Us_Option" }
                     \/ pos.symbol \in OccSymbols)
            /\ (pos.asset_class = "" /\ pos.symbol \in OccSymbols) => th.is_option
            /\ ~th.is_option =>
                    /\ th.stop_loss_pct = stop
                    /\ th.armed_gain_pct = gain
                    /\ th.trail_drop_pct = drop
            /\ th.is_option =>
                    /\ th.stop_loss_pct = OptionThreshold(environ, "Option_STOP_LOSS_PCT", stop)
                    /\ th.armed_gain_pct = OptionThreshold(environ, "Option_ARMED_GAIN_PCT", gain)
                    /\ th.trail_drop_pct = OptionThreshold(environ, "Option_TRAIL_DROP_PCT", drop)

\* Scenario E: a blank asset class and an OCC ticker make an option; its
\* stop-loss is the one given under the upper-case name, and its trail drop,
\* given nowhere, is the stock trail drop the environment sets
C18_Witness ==
    /\ call.made
    /\ call.pos.asset_class = "" /\ call.pos.symbol = "AAPL250117C00150000"
    /\ call.th.is_option
    /\ environ["Option_STOP_LOSS_PCT"].k = "none"
    /\ call.th.stop_loss_pct = Int2Rat(-1000)
    /\ environ["Option_TRAIL_DROP_PCT"].k = "none" /\ environ["OPTION_TRAIL_DROP_PCT"].k = "none"
    /\ call.th.trail_drop_pct = Int2Rat(200)

CloseSucceeded == { "closed", "recordfail" }

\* C19: when close_position succeeds for a ticker, the same pass appends
\* exactly one closed-trade record for the ticker, holding the percent_gain and
\* the armed flag of the cycle, and the cycle writes no active row for the
\* ticker; a record is appended only by a pass whose close_position succeeded.
C19_CloseIsRecorded ==
    [][/\ \A t \in Tickers :
            StepOn(t) =>
                LET e == log'[t]
                IN  /\ e.dec \in CloseSucceeded =>
                            /\ Len(closed') = Len(closed) + 1
                            /\ IsPrefix(closed, closed')
                            /\ closed'[Len(closed')].Ticker = t
                            /\ RatEq(Int2Rat(closed'[Len(closed')].Gain), e.percent_gain)
                            /\ closed'[Len(closed')].Armed = IF e.armed THEN "TRUE" ELSE "FALSE"
                    /\ e.dec \notin CloseSucceeded => closed' = closed
       /\ WriteResults =>
            \A t \in Tickers : log[t].dec \in CloseSucceeded => ~HasRow(active', t)]_vars

\* C20: a cycle that is abandoned because the sheet set-up or state load, or
\* list_positions, raises leaves the rows of the active table and of the
\* closed-trades table as they were, and calls close_position for no ticker.
C20_EarlyAbandonChangesNothing ==
    [][(pc \in { "start", "list" } /\ pc' = "sleep")
        => /\ active' = active
           /\ closed' = closed
           /\ closeCalls = {} /\ closeCalls' = {}]_vars

\* a cycle was abandoned, and both tables hold the rows of earlier cycles
C20_Witness ==
    /\ pc = "sleep"
    /\ \A t \in Tickers : ~run[t].known /\ log[t].dec = "none"
    /\ Len(active) = 2
    /\ closed # << >>

====
